---- MODULE Spec2Model ----
(***************************************************************************)
(* Model of the Lighthouse base-station power tool (src/src/main.rs):      *)
(* the discovery loop, the per-device dispatch tasks (get_peripherals,     *)
(* v1ctrl, v2ctrl) and the adaptive-timeout loop of main.                  *)
(*                                                                         *)
(* Strings are sequences of one-character strings, so that slicing and     *)
(* parsing are computed as the code computes them.  Time is counted in     *)
(* half seconds: 10 s is 20 units, 0.5 s is 1 unit.                        *)
(***************************************************************************)
EXTENDS Integers, Sequences, FiniteSets, TLC

----------------------------------------------------------------------------
(* Bounds of the model *)

\* number of events the adapter's stream delivers in a run
MaxEvents == 2
\* the clock ticks one unit at a time up to this horizon
MaxTime == 3
\* length of the generated name suffixes of the encoder specification
MaxSuffix == 8

----------------------------------------------------------------------------
(* Program constants *)

\* tokio::sync::mpsc::channel(100)
Capacity == 100
\* Duration::from_secs(10), in half seconds
InitialTimeout == 20
\* duration = elapsed * 10
Factor == 10
\* &name[(name.len() - 4)..]
BsidLen == 4

States == {"Off", "On", "Standby"}

UuidV1 == "0000cb01-0000-1000-8000-00805f9b34fb"
UuidV2 == "00001525-1212-efde-1523-785feabcd124"

PrefixV1 == <<"H", "T", "C", " ", "B", "S">>
PrefixV2 == <<"L", "H", "B", "-">>

----------------------------------------------------------------------------
(* String helpers *)

Max(a, b) == IF a >= b THEN a ELSE b

\* mutant: the prefix is looked for anywhere in the name
StartsWithAnywhere(s, p) ==
  \E k \in 0..(Len(s) - Len(p)) : SubSeq(s, k + 1, k + Len(p)) = p

\* str::starts_with
StartsWith(s, p) == Len(s) >= Len(p) /\ SubSeq(s, 1, Len(p)) = p

\* &s[a..b]: panics when the range is not inside the string
SliceOk(s, a, b) == a <= b /\ b <= Len(s)
Slice(s, a, b) == SubSeq(s, a + 1, b)

HexLower == <<"0", "1", "2", "3", "4", "5", "6", "7", "8", "9",
              "a", "b", "c", "d", "e", "f">>
HexUpper == <<"0", "1", "2", "3", "4", "5", "6", "7", "8", "9",
              "A", "B", "C", "D", "E", "F">>

\* char::to_digit(16)
IsHexDigit(c) == \E i \in 1..16 : HexLower[i] = c \/ HexUpper[i] = c
HexVal(c) == (CHOOSE i \in 1..16 : HexLower[i] = c \/ HexUpper[i] = c) - 1

RECURSIVE HexNumber(_)
HexNumber(digits) ==
  IF digits = <<>> THEN 0
  ELSE 16 * HexNumber(SubSeq(digits, 1, Len(digits) - 1))
       + HexVal(digits[Len(digits)])

\* u8::from_str_radix(s, 16): an optional leading "+", then hex digits only,
\* and a value that fits a byte.  ok = FALSE is the ParseIntError.
FromStrRadix16(s) ==
  LET digits == IF s # <<>> /\ s[1] = "+" THEN Tail(s) ELSE s
  IN  IF digits = <<>> \/ \E i \in 1..Len(digits) : ~IsHexDigit(digits[i])
      THEN [ok |-> FALSE, val |-> 0]
      ELSE IF HexNumber(digits) > 255
           THEN [ok |-> FALSE, val |-> 0]
           ELSE [ok |-> TRUE, val |-> HexNumber(digits)]

----------------------------------------------------------------------------
(* The command encoders.  An encoder ends in one of three ways: it calls    *)
(* lighthouse::write with a payload and a characteristic ("write"), it      *)
(* returns an error value ("err"), or it panics ("panic").                  *)

EncWrite(cmd, uuid) == [kind |-> "write", cmd |-> cmd, uuid |-> uuid, err |-> ""]
EncErr(e) == [kind |-> "err", cmd |-> <<>>, uuid |-> "", err |-> e]
EncPanic == [kind |-> "panic", cmd |-> <<>>, uuid |-> "", err |-> ""]

Zeros12 == <<0, 0, 0, 0, 0, 0, 0, 0, 0, 0, 0, 0>>

\* the match on state of v1ctrl, given the four parsed bytes
V1Frame(aa, bb, cc, dd, state) ==
  CASE state = "Off" -> EncWrite(<<18, 2, 0, 1, dd, cc, bb, aa>> \o Zeros12, UuidV1)
    [] state = "On"  -> EncWrite(<<18, 0, 0, 0, dd, cc, bb, aa>> \o Zeros12, UuidV1)
    [] OTHER         -> EncErr("Message")

\* the k-th (0-based) hex pair of bsid: "panic" when the slice is out of
\* range, "err" when it does not parse, "ok" with the byte otherwise
HexPair(bsid, k) ==
  IF ~SliceOk(bsid, 2 * k, 2 * k + 2) THEN [kind |-> "panic", val |-> 0]
  ELSE LET p == FromStrRadix16(Slice(bsid, 2 * k, 2 * k + 2))
       IN  IF p.ok THEN [kind |-> "ok", val |-> p.val]
           ELSE [kind |-> "err", val |-> 0]

\* the part of the name v1ctrl parses
Bsid(name) == SubSeq(name, Len(name) - BsidLen + 1, Len(name))

V1Ctrl(name, state) ==
  IF Len(name) < BsidLen THEN EncPanic
  ELSE
    LET bsid == Bsid(name)
        aa == HexPair(bsid, 0)
        bb == HexPair(bsid, 1)
        cc == HexPair(bsid, 2)
        dd == HexPair(bsid, 3)
        First(p, rest) == IF p.kind = "panic" THEN EncPanic
                          ELSE IF p.kind = "err" THEN EncErr("Std")
                          ELSE rest
    IN  First(aa, First(bb, First(cc, First(dd,
          V1Frame(aa.val, bb.val, cc.val, dd.val, state)))))

\* mutant: Standby is sent as On
V2CtrlOnOff(state) ==
  IF state = "Off" THEN EncWrite(<<0>>, UuidV2) ELSE EncWrite(<<1>>, UuidV2)

V2Ctrl(state) ==
  CASE state = "Off"     -> EncWrite(<<0>>, UuidV2)
    [] state = "On"      -> EncWrite(<<1>>, UuidV2)
    [] state = "Standby" -> EncWrite(<<2>>, UuidV2)

\* lines 76-80 of get_peripherals: the prefix test and the encoder it selects;
\* "skip" when the name has neither prefix
EncSkip == [kind |-> "skip", cmd |-> <<>>, uuid |-> "", err |-> ""]

Dispatch(name, state) ==
  IF StartsWith(name, PrefixV1) THEN V1Ctrl(name, state)
  ELSE IF StartsWith(name, PrefixV2) THEN V2Ctrl(state)
  ELSE EncSkip

----------------------------------------------------------------------------
(* Devices: what the adapter answers when a task resolves a discovered id *)

NameV1Hex == PrefixV1 \o <<"1", "2", "3", "4", "5", "6", "7", "8">>
NameV1Bad == PrefixV1 \o <<"Z", "Z", "Z", "Z", "Z", "Z", "Z", "Z">>
NameV1Mixed == PrefixV1 \o <<"Z", "Z", "Z", "Z", "5", "6", "7", "8">>
NameV2 == PrefixV2 \o <<"A", "B", "C", "D", "E", "F">>
NameOther == <<"M", "o", "u", "s", "e">>

SysNames == {NameV1Hex, NameV1Bad, NameV2, NameOther}

Dev(perr, props, hasName, name) ==
  [perr |-> perr, props |-> props, hasName |-> hasName, name |-> name]

\* central.peripheral(id) fails
DevPeripheralErr == Dev(TRUE, FALSE, FALSE, <<>>)
\* peripheral.properties() is Err or Ok(None)
DevNoProps == Dev(FALSE, FALSE, FALSE, <<>>)
\* properties.local_name is None
DevNoName == Dev(FALSE, TRUE, FALSE, <<>>)
DevNamed(n) == Dev(FALSE, TRUE, TRUE, n)

Devices == {DevPeripheralErr, DevNoProps, DevNoName} \cup {DevNamed(n) : n \in SysNames}

----------------------------------------------------------------------------
(* State *)

VARIABLES
  env,        \* the surroundings: devices in range, events delivered, horizon
  state,      \* the State parsed from the command line, fixed for the run
  now,        \* the clock (Instant::now)
  delivered,  \* number of events the stream has delivered
  dpc,        \* discovery loop: "next" (events.next) or "send" (tx.send)
  tasks,      \* the spawned get_peripherals tasks, by handle 1..Len(tasks)
  queue,      \* the mpsc channel: handles in flight
  cpc,        \* main loop: "select", "await" (ret.await) or "done"
  cur,        \* the handle main is awaiting (0: none)
  prev,       \* main's prev
  duration,   \* main's duration
  deadline,   \* deadline of the Sleep created at the top of the loop
  outcome,    \* what main returned
  consumed,   \* log of main's iterations: handle, result, timeout set
  encIn,      \* encoder specification: the name and state dispatched
  encOut      \* encoder specification: what the dispatch did

sysvars == <<env, state, now, delivered, dpc, tasks, queue, cpc, cur, prev,
             duration, deadline, outcome, consumed>>
encvars == <<encIn, encOut>>
vars == <<env, state, now, delivered, dpc, tasks, queue, cpc, cur, prev,
          duration, deadline, outcome, consumed, encIn, encOut>>

\* Result<Option<Instant>, Error> of a task, or the JoinError of a panic
Res(kind, time, err) == [kind |-> kind, time |-> time, err |-> err]
ResPending == Res("pending", 0, "")
ResNone == Res("none", 0, "")
ResSome(t) == Res("some", t, "")
ResErr(e) == Res("err", 0, e)
ResPanic == Res("panic", 0, "")

Task(pc, dev, time, res, writes) ==
  [pc |-> pc, dev |-> dev, time |-> time, res |-> res, writes |-> writes]

\* a task whose JoinHandle main has awaited: its output has been moved out
Joined == Task("joined", DevNoProps, 0, ResPending, <<>>)

\* tokio::spawn(get_peripherals(..)): nothing resolved yet
NewTask == Task("spawned", DevNoProps, 0, ResPending, <<>>)

\* get_peripherals from its start to the first suspension inside a write, or
\* to its return, for the device the adapter resolves and the clock value t.
\* The field time is the local `time` while the task is suspended in the
\* write; a finished task holds only its result.
GetPeripherals(dev, st, t) ==
  IF dev.perr THEN Task("done", dev, 0, ResErr("Btle"), <<>>)
  ELSE IF ~dev.props \/ ~dev.hasName THEN Task("done", dev, 0, ResNone, <<>>)
  ELSE LET r == Dispatch(dev.name, st)
       IN  CASE r.kind = "skip"  -> Task("done", dev, 0, ResSome(t), <<>>)
             [] r.kind = "write" ->
                  Task("writing", dev, t, ResPending,
                       <<[cmd |-> r.cmd, uuid |-> r.uuid]>>)
             [] r.kind = "err"   -> Task("done", dev, 0, ResErr(r.err), <<>>)
             [] r.kind = "panic" -> Task("done", dev, 0, ResPanic, <<>>)

\* lighthouse::write returns: Ok(()) and the task returns Ok(Some(time)), or
\* an error that `?` propagates
WriteReturns(task, ok) ==
  [task EXCEPT !.pc = "done", !.time = 0,
               !.res = IF ok THEN ResSome(task.time) ELSE ResErr("Write")]

\* mutant: a signed difference instead of the saturating one
DurationSinceSigned(t, earlier) == t - earlier

\* Instant::duration_since: zero when the argument is the later instant
DurationSince(t, earlier) == Max(0, t - earlier)

Out(kind, err) == [kind |-> kind, err |-> err]
Running == outcome.kind = "running"

----------------------------------------------------------------------------
(* Initial states *)

EncIdle == [kind |-> "idle", cmd |-> <<>>, uuid |-> "", err |-> ""]

Env(devices, events, horizon) ==
  [devices |-> devices, events |-> events, horizon |-> horizon]

InitSys(e, states, start) ==
  /\ env = e
  /\ state \in states
  /\ now = start
  /\ delivered = 0
  /\ dpc = "next"
  /\ tasks = <<>>
  /\ queue = <<>>
  /\ cpc = "select"
  /\ cur = 0
  /\ prev = start
  /\ duration = InitialTimeout
  /\ deadline = start + InitialTimeout
  /\ outcome = Out("running", "")
  /\ consumed = <<>>

InitEncIdle ==
  /\ encIn = [hasName |-> FALSE, name |-> <<>>, state |-> "Off"]
  /\ encOut = EncIdle

\* a mixed neighbourhood, watched over a short horizon
EnvMixed == Env(Devices, MaxEvents, MaxTime)

\* Generation-2 base stations resolved at a cadence of 1 s, 2 s and 0.5 s
CadenceGaps == <<2, 4, 1>>
EnvCadence ==
  Env({DevNamed(NameV2)}, Len(CadenceGaps),
      CadenceGaps[1] + CadenceGaps[2] + CadenceGaps[3])

Init ==
  /\ \/ InitSys(EnvMixed, States, 0)
     \/ InitSys(EnvCadence, {"On"}, 0)
  /\ InitEncIdle

\* a burst: Capacity devices were discovered, and central.peripheral failed for
\* each, before main was scheduled again, so the channel is full
BurstTask == GetPeripherals(DevPeripheralErr, "Off", 0)

InitBurst ==
  /\ env = Env(Devices, Capacity + MaxEvents, MaxTime)
  /\ state \in States
  /\ now = 0
  /\ delivered = Capacity
  /\ dpc = "next"
  /\ tasks = [i \in 1..Capacity |-> BurstTask]
  /\ queue = [i \in 1..Capacity |-> i]
  /\ cpc = "select"
  /\ cur = 0
  /\ prev = 0
  /\ duration = InitialTimeout
  /\ deadline = InitialTimeout
  /\ outcome = Out("running", "")
  /\ consumed = <<>>
  /\ InitEncIdle


----------------------------------------------------------------------------
(* The clock *)

Tick ==
  /\ Running
  /\ now < env.horizon
  /\ now' = now + 1
  /\ UNCHANGED <<env, state, delivered, dpc, tasks, queue, cpc, cur, prev,
                 duration, deadline, outcome, consumed, encIn, encOut>>

\* main is parked in select! and nothing else reads the clock before the
\* Sleep's deadline: time passes up to the deadline
AdvanceToDeadline ==
  /\ Running
  /\ cpc = "select"
  /\ now < deadline
  /\ now' = deadline
  /\ UNCHANGED <<env, state, delivered, dpc, tasks, queue, cpc, cur, prev,
                 duration, deadline, outcome, consumed, encIn, encOut>>

----------------------------------------------------------------------------
(* The discovery loop (lines 120-130) *)

\* an event that is not DeviceDiscovered
EventOther ==
  /\ Running
  /\ dpc = "next"
  /\ delivered < env.events
  /\ delivered' = delivered + 1
  /\ UNCHANGED <<env, state, now, dpc, tasks, queue, cpc, cur, prev,
                 duration, deadline, outcome, consumed, encIn, encOut>>

\* DeviceDiscovered(id): spawn the task, then go on to send its handle
EventDiscovered ==
  /\ Running
  /\ dpc = "next"
  /\ delivered < env.events
  /\ delivered' = delivered + 1
  /\ tasks' = Append(tasks, NewTask)
  /\ dpc' = "send"
  /\ UNCHANGED <<env, state, now, queue, cpc, cur, prev,
                 duration, deadline, outcome, consumed, encIn, encOut>>

\* mutant: the channel admits one handle more than its capacity
HasRoomInclusive(q) == Len(q) <= Capacity

\* tx.send(hoge).await completes once the channel has room
HasRoom(q) == Len(q) < Capacity

\* mutant: the handle is put at the head of the channel
EnqueueFirst(q, h) == <<h>> \o q

\* the channel after tx.send(h): h is the last to be received
Enqueue(q, h) == Append(q, h)

Send ==
  /\ Running
  /\ dpc = "send"
  /\ HasRoom(queue)
  /\ queue' = Enqueue(queue, Len(tasks))
  /\ dpc' = "next"
  /\ UNCHANGED <<env, state, now, delivered, tasks, cpc, cur, prev,
                 duration, deadline, outcome, consumed, encIn, encOut>>

----------------------------------------------------------------------------
(* The dispatch tasks (get_peripherals) *)

Resolve(i) ==
  /\ Running
  /\ tasks[i].pc = "spawned"
  /\ \E dev \in env.devices :
       tasks' = [tasks EXCEPT ![i] = GetPeripherals(dev, state, now)]
  /\ UNCHANGED <<env, state, now, delivered, dpc, queue, cpc, cur, prev,
                 duration, deadline, outcome, consumed, encIn, encOut>>

WriteDone(i) ==
  /\ Running
  /\ tasks[i].pc = "writing"
  /\ \E ok \in BOOLEAN :
       tasks' = [tasks EXCEPT ![i] = WriteReturns(tasks[i], ok)]
  /\ UNCHANGED <<env, state, now, delivered, dpc, queue, cpc, cur, prev,
                 duration, deadline, outcome, consumed, encIn, encOut>>

----------------------------------------------------------------------------
(* The main loop (lines 131-150) *)

\* mutant: the newest handle is received first
NextHandleNewest(q) == q[Len(q)]

\* which handle rx.recv() yields
NextHandle(q) == Head(q)

\* mutant: the handle received stays in the channel
RemainingAll(q) == q

\* the channel after rx.recv() has taken that handle out
Remaining(q) == SelectSeq(q, LAMBDA h : h # NextHandle(q))

\* select! takes the recv branch
Recv ==
  /\ Running
  /\ cpc = "select"
  /\ queue # <<>>
  /\ cur' = NextHandle(queue)
  /\ queue' = Remaining(queue)
  /\ cpc' = "await"
  /\ UNCHANGED <<env, state, now, delivered, dpc, tasks, prev,
                 duration, deadline, outcome, consumed, encIn, encOut>>

\* mutant: the Sleep completes only strictly after its deadline
ElapsedStrictly(t, dl) == t > dl

\* whether the Sleep created with `deadline` has elapsed
Elapsed(t, dl) == t >= dl

\* what main returns when the timeout branch wins
TimeoutOutcome == Out("ok", "")

\* mutant: the Sleep is also raced against the task main awaits
TimeoutPolledAwaiting(pc) == pc \in {"select", "await"}

\* the Sleep is polled by select! only, next to rx.recv()
TimeoutPolled(pc) == pc = "select"

\* select! takes the timeout branch: break, Ok(())
Timeout ==
  /\ Running
  /\ TimeoutPolled(cpc)
  /\ Elapsed(now, deadline)
  /\ cpc' = "done"
  /\ outcome' = TimeoutOutcome
  /\ UNCHANGED <<env, state, now, delivered, dpc, tasks, queue, cur, prev,
                 duration, deadline, consumed, encIn, encOut>>

\* mutant: prev keeps the latest instant seen
NewPrevLatest(res, p) == IF res.kind = "some" THEN Max(p, res.time) ELSE p

\* lines 142-146: the new (prev, duration) for a result Ok(res)
NewPrev(res, p) == IF res.kind = "some" THEN res.time ELSE p
\* mutant: a result without a timestamp restores the initial timeout
NewDurationReset(res, p, d) ==
  IF res.kind = "some" THEN Max(0, res.time - p) * Factor ELSE InitialTimeout

NewDuration(res, p, d) ==
  IF res.kind = "some" THEN DurationSince(res.time, p) * Factor ELSE d

\* mutant: an error value is dropped and the loop goes on
OutcomeOfLenient(res) ==
  IF res.kind = "panic" THEN Out("panic", "") ELSE Out("running", "")

\* ret.await.unwrap()? : how main ends on a result, "running" when it goes on
OutcomeOf(res) ==
  CASE res.kind = "panic" -> Out("panic", "")
    [] res.kind = "err"   -> Out("err", res.err)
    [] OTHER              -> Out("running", "")

\* mutant: the Sleep's deadline is counted from the start of the run
SleepDeadlineFromStart(t, d) == d

\* tokio::time::sleep(duration) called at the instant t: when the Sleep elapses
SleepDeadline(t, d) == t + d

\* the awaited task has finished: lines 141-147, then the top of the loop
\* (line 134) where the next Sleep is created
Consume ==
  /\ Running
  /\ cpc = "await"
  /\ tasks[cur].pc = "done"
  /\ LET res == tasks[cur].res
     IN  /\ outcome' = OutcomeOf(res)
         /\ consumed' = Append(consumed,
              [h |-> cur, res |-> res,
               timeout |-> IF OutcomeOf(res).kind = "running"
                           THEN NewDuration(res, prev, duration)
                           ELSE duration])
         /\ cur' = 0
         /\ tasks' = [tasks EXCEPT ![cur] = Joined]
         /\ IF OutcomeOf(res).kind = "running"
            THEN /\ cpc' = "select"
                 /\ prev' = NewPrev(res, prev)
                 /\ duration' = NewDuration(res, prev, duration)
                 /\ deadline' =
                      SleepDeadline(now, NewDuration(res, prev, duration))
            ELSE /\ cpc' = "done"
                 /\ UNCHANGED <<prev, duration, deadline>>
  /\ UNCHANGED <<env, state, now, delivered, dpc, queue, encIn, encOut>>

----------------------------------------------------------------------------
(* The encoders on their own: one name and one state are dispatched as     *)
(* lines 76-80 dispatch them.                                              *)

EncChars == {"1", "F", "Z", "+"}
Suffixes == UNION {[1..k -> EncChars] : k \in 0..MaxSuffix}
\* names that hold a prefix anywhere but at their start, or only a part of it
NearNames ==
  {<<"X">> \o NameV1Hex, <<"X">> \o NameV2, NameOther \o PrefixV2,
   SubSeq(PrefixV1, 1, 5), SubSeq(PrefixV2, 1, 3), PrefixV2,
   PrefixV2 \o PrefixV1, <<"h", "t", "c", " ", "b", "s">>, <<>>}
EncNames ==
  {PrefixV1 \o s : s \in Suffixes}
    \cup {NameV1Hex, NameV1Bad, NameV1Mixed, NameV2, NameOther}
    \cup NearNames

\* properties.local_name: Some(name), or None
EncInputs ==
  [hasName : {TRUE}, name : EncNames, state : States]
    \cup [hasName : {FALSE}, name : {<<>>}, state : States]

InitEnc ==
  /\ InitSys(EnvMixed, {"Off"}, 0)
  /\ encIn \in EncInputs
  /\ encOut = EncIdle

\* line 74: there is no name, nothing is dispatched
EncodeAbsent ==
  /\ encOut.kind = "idle"
  /\ ~encIn.hasName
  /\ encOut' = EncSkip
  /\ UNCHANGED <<sysvars, encIn>>

EncodeV1 ==
  /\ encOut.kind = "idle"
  /\ encIn.hasName
  /\ StartsWith(encIn.name, PrefixV1)
  /\ encOut' = V1Ctrl(encIn.name, encIn.state)
  /\ UNCHANGED <<sysvars, encIn>>

EncodeV2 ==
  /\ encOut.kind = "idle"
  /\ encIn.hasName
  /\ ~StartsWith(encIn.name, PrefixV1)
  /\ StartsWith(encIn.name, PrefixV2)
  /\ encOut' = V2Ctrl(encIn.state)
  /\ UNCHANGED <<sysvars, encIn>>

EncodeNone ==
  /\ encOut.kind = "idle"
  /\ encIn.hasName
  /\ ~StartsWith(encIn.name, PrefixV1)
  /\ ~StartsWith(encIn.name, PrefixV2)
  /\ encOut' = EncSkip
  /\ UNCHANGED <<sysvars, encIn>>

NextEnc == EncodeAbsent \/ EncodeV1 \/ EncodeV2 \/ EncodeNone

SpecEnc == InitEnc /\ [][NextEnc]_vars

----------------------------------------------------------------------------
Next ==
  \/ Tick
  \/ AdvanceToDeadline
  \/ EventOther
  \/ EventDiscovered
  \/ Send
  \/ \E i \in 1..Len(tasks) : Resolve(i)
  \/ \E i \in 1..Len(tasks) : WriteDone(i)
  \/ Recv
  \/ Timeout
  \/ Consume

Spec == Init /\ [][Next]_vars

SpecBurst == InitBurst /\ [][Next]_vars

\* Scheduling: the runtime keeps polling main and every spawned task, the
\* adapter answers every request, and time passes while main sleeps.
TaskStep == \E i \in 1..Len(tasks) : Resolve(i) \/ WriteDone(i)
MainStep == Recv \/ Timeout \/ Consume

\* The requested state only selects the bytes written, so the fair
\* specification fixes it.
InitFair == InitSys(EnvMixed, {"On"}, 0) /\ InitEncIdle

FairSpec ==
  /\ InitFair /\ [][Next]_vars
  /\ WF_vars(AdvanceToDeadline)
  /\ WF_vars(TaskStep)
  /\ WF_vars(MainStep)

----------------------------------------------------------------------------
(* Claims *)

\* the step in which main consumes the result of the task it awaits
Consumes == cpc = "await" /\ cpc' # "await"
\* ... and that result is Ok(Some(T))
ConsumesSome == Consumes /\ tasks[cur].res.kind = "some"

\* C1 (as amended): whenever main consumes a result Ok(Some(T)) it sets the
\* remaining timeout to 10 x (T - prev) when T is not earlier than prev, and to
\* zero when T is earlier than prev, and then sets prev to T.
C1_TimeoutIsTenTimesSaturatedGap ==
  [][ConsumesSome =>
       LET T == tasks[cur].res.time
       IN  /\ duration' = 10 * (IF T >= prev THEN T - prev ELSE 0)
           /\ prev' = T]_vars

\* C1, witness: from prev = start = 0, three successful results with
\* timestamps 1 s, 3 s and 3.5 s (gaps of 1 s, 2 s and 0.5 s) have been
\* consumed and the timeouts set were 10 s, 20 s and 5 s (20, 40, 10 units).
C1_CadenceWitness ==
  /\ Len(consumed) = 3
  /\ \A k \in 1..3 : consumed[k].res.kind = "some"
  /\ <<consumed[1].res.time, consumed[2].res.time, consumed[3].res.time>>
       = <<2, 6, 7>>
  /\ <<consumed[1].timeout, consumed[2].timeout, consumed[3].timeout>>
       = <<20, 40, 10>>
  /\ prev = 7
  /\ duration = 10

\* C1 (as stated): whenever main consumes a result Ok(Some(T)) it sets the
\* remaining timeout to 10 x (T - prev) and then sets prev to T.
C1_TimeoutIsTenTimesGap ==
  [][ConsumesSome =>
       LET T == tasks[cur].res.time
       IN  /\ duration' = 10 * (T - prev)
           /\ prev' = T]_vars

\* a device the claims call not applicable: no name, or a name with neither
\* prefix
NotApplicable(dev) ==
  /\ ~dev.perr
  /\ \/ ~dev.props
     \/ ~dev.hasName
     \/ (~StartsWith(dev.name, PrefixV1) /\ ~StartsWith(dev.name, PrefixV2))

\* C2: when the task main awaited was for a device that is not applicable (name
\* absent, or present with neither prefix), consuming its result changes
\* neither the remaining timeout nor prev.
C2_NotApplicableLeavesTimeout ==
  [][(Consumes /\ NotApplicable(tasks[cur].dev)) =>
       (prev' = prev /\ duration' = duration)]_vars

\* a result that is an error value or a panic
Failed(res) == res.kind = "err" \/ res.kind = "panic"

\* C3 (as amended): when main awaits a task that returned an error, the loop
\* stops at once with that error as the outcome of the run, and that task is
\* the first in queue order whose result is not Ok: every result consumed
\* before it was Ok, and nothing is consumed after a failed result.  (A run
\* can still end with success while a failed task's handle is in the queue.)
C3_FirstAwaitedFailureEndsRun ==
  /\ \A k \in 1..Len(consumed) :
       Failed(consumed[k].res) =>
         /\ k = Len(consumed)
         /\ cpc = "done"
         /\ consumed[k].res.kind = "err" =>
              outcome = [kind |-> "err", err |-> consumed[k].res.err]
  /\ outcome.kind = "err" =>
       /\ consumed # <<>>
       /\ consumed[Len(consumed)].res.kind = "err"
  /\ outcome.kind = "ok" => \A k \in 1..Len(consumed) : ~Failed(consumed[k].res)

\* C3, witness: the run ended with the write error of the second task, after
\* the first task's success was consumed and while a third, successful task
\* was still queued.
C3_FailureAmongSuccessesWitness ==
  /\ outcome = [kind |-> "err", err |-> "Write"]
  /\ Len(consumed) = 2
  /\ consumed[1].res.kind = "some"
  /\ queue # <<>>
  /\ tasks[Head(queue)].res.kind = "some"

\* C3 (as stated, its second part): the run never ends with success once a
\* failing task's handle has been enqueued ahead of the timeout.
C3_NoSuccessOnceFailureQueued ==
  outcome.kind = "ok" =>
    \A k \in 1..Len(queue) : tasks[queue[k]].res.kind # "err"

\* C4: the Controller eventually leaves "scanning" once discovery events stop
\* arriving (the stream delivers finitely many here), and when it leaves
\* through the timeout the run returns success.
C4_TimeoutEndsRun ==
  /\ <>(cpc = "done")
  /\ [][(cpc = "select" /\ cpc' = "done") => outcome'.kind = "ok"]_vars

\* C4, witness: all events were delivered, results were consumed, and the run
\* ended by timeout with success.
C4_TimedOutWitness ==
  /\ cpc = "done"
  /\ outcome.kind = "ok"
  /\ delivered = env.events
  /\ consumed # <<>>
  /\ queue = <<>>

\* C5: results are consumed in the order of the discovery events that spawned
\* their tasks (handles are numbered in that order), never in completion
\* order: the k-th result consumed is that of the k-th task spawned.
C5_ConsumedInDiscoveryOrder ==
  \A k \in 1..Len(consumed) : consumed[k].h = k

\* C5, witness: the first result was consumed, main awaits the second task,
\* which has not finished, and the third task, discovered later, has.
C5_LaterTaskFinishedFirstWitness ==
  /\ Len(consumed) = 1
  /\ cpc = "await"
  /\ cur = 2
  /\ tasks[2].pc # "done"
  /\ Len(tasks) = 3
  /\ tasks[3].pc = "done"

\* tasks spawned whose result main has not yet consumed
Outstanding == Len(tasks) - Len(consumed)

\* C6 (as amended): at most 102 tasks are outstanding: the channel never
\* holds more than 100 handles, besides which the discovery loop holds at most
\* one spawned task it has not yet sent and main at most one it is awaiting.
C6_OutstandingAtMostCapacityPlusTwo ==
  /\ Len(queue) <= 100
  /\ Outstanding <= 102
  /\ Outstanding <=
       Len(queue) + (IF dpc = "send" THEN 1 ELSE 0)
                  + (IF cpc = "await" THEN 1 ELSE 0)

\* C6, witness: 102 tasks are outstanding.
C6_BurstWitness ==
  /\ Outstanding = 102
  /\ Len(queue) = 100
  /\ dpc = "send"
  /\ cpc = "await"

\* C6 (as stated): at most 100 tasks are outstanding.
C6_OutstandingAtMostCapacity == Outstanding <= 100

\* the trailing 8 characters of a name are 4 hex pairs that parse as bytes
ValidBsid8(name) ==
  /\ Len(name) >= 8
  /\ \A k \in 0..3 :
       FromStrRadix16(SubSeq(name, Len(name) - 7 + 2 * k,
                             Len(name) - 6 + 2 * k)).ok

\* a device a task is meant to write to: a Generation-2 name, or a
\* Generation-1 name with a valid identifier and a state that generation has
MeantToWrite(dev, st) ==
  /\ ~NotApplicable(dev) /\ ~dev.perr
  /\ StartsWith(dev.name, PrefixV1) => (ValidBsid8(dev.name) /\ st # "Standby")

\* C7: a task that has resolved its device has performed exactly one write
\* when the device is applicable (and its command can be encoded), with the
\* characteristic of the generation the prefix selects, and no write when the
\* device is not applicable; no task performs more than one write.
C7_OneWritePerApplicableDevice ==
  \A i \in 1..Len(tasks) :
    tasks[i].pc \in {"writing", "done"} =>
      /\ Len(tasks[i].writes) <= 1
      /\ NotApplicable(tasks[i].dev) => tasks[i].writes = <<>>
      /\ MeantToWrite(tasks[i].dev, state) =>
           /\ Len(tasks[i].writes) = 1
           /\ tasks[i].writes[1].uuid =
                (IF StartsWith(tasks[i].dev.name, PrefixV1)
                 THEN UuidV1 ELSE UuidV2)

\* the byte of the k-th (0-based) hex pair of the trailing 8 characters
Bsid8Byte(name, k) ==
  FromStrRadix16(SubSeq(name, Len(name) - 7 + 2 * k, Len(name) - 6 + 2 * k)).val

\* the frame section 4.1 of the specification describes for a valid name
SpecifiedV1Frame(name, st) ==
  (IF st = "Off" THEN <<18, 2, 0, 1>> ELSE <<18, 0, 0, 0>>)
    \o <<Bsid8Byte(name, 3), Bsid8Byte(name, 2),
         Bsid8Byte(name, 1), Bsid8Byte(name, 0)>>
    \o <<0, 0, 0, 0, 0, 0, 0, 0, 0, 0, 0, 0>>

\* the encoder specification has dispatched a Generation-1 name
EncodedV1 == encOut.kind # "idle" /\ StartsWith(encIn.name, PrefixV1)

\* C8: for every Generation-1 name whose trailing 8 characters are 4 valid hex
\* pairs AABBCCDD and every state in {Off, On}, the encoder writes exactly the
\* 20-byte frame 12 02 00 01 (Off) or 12 00 00 00 (On), DD CC BB AA, 12 zero
\* bytes, to the characteristic 0000cb01-0000-1000-8000-00805f9b34fb.
C8_Gen1Frame ==
  (EncodedV1 /\ ValidBsid8(encIn.name) /\ encIn.state \in {"Off", "On"}) =>
    /\ encOut.kind = "write"
    /\ encOut.cmd = SpecifiedV1Frame(encIn.name, encIn.state)
    /\ Len(encOut.cmd) = 20
    /\ encOut.uuid = "0000cb01-0000-1000-8000-00805f9b34fb"

\* C9: for a Generation-1 name with a valid identifier suffix and the state
\* Standby, encoding fails with the unsupported-state error, returned as an
\* error value, and no write is performed.
C9_Gen1StandbyUnsupported ==
  (EncodedV1 /\ ValidBsid8(encIn.name) /\ encIn.state = "Standby") =>
    /\ encOut.kind = "err"
    /\ encOut.err = "Message"

\* C10: for a Generation-1 name, whenever one of the 4 hex pairs of the
\* trailing 8 characters does not parse as a byte (or the name is too short
\* to have them), encoding fails with the format error, returned as an error
\* value with no write performed, and never by a crash of the task.
C10_Gen1MalformedIsFormatError ==
  (EncodedV1 /\ ~ValidBsid8(encIn.name)) =>
    /\ encOut.kind = "err"
    /\ encOut.err = "Std"

\* the name begins with the literal characters lit
BeginsWith(name, lit) ==
  /\ Len(name) >= Len(lit)
  /\ \A i \in 1..Len(lit) : name[i] = lit[i]

LitHtcBs == <<"H", "T", "C", " ", "B", "S">>
LitLhb == <<"L", "H", "B", "-">>

\* what the dispatch of a name did shows which encoder ran: v1ctrl ends in a
\* write to the Generation-1 characteristic, an error value or a panic;
\* v2ctrl in a write to the Generation-2 characteristic; no encoder in "skip"
RanV1 ==
  \/ encOut.kind = "write" /\ encOut.uuid = UuidV1
  \/ encOut.kind \in {"err", "panic"}
RanV2 == encOut.kind = "write" /\ encOut.uuid = UuidV2
RanNone == encOut.kind = "skip"

\* C11: the classification depends on the name's prefix only: a present name
\* beginning with "HTC BS" is handled by the Generation-1 encoder whatever
\* follows, a present name beginning with "LHB-" by the Generation-2 encoder,
\* and for every other name, and for an absent name, no encoder is invoked.
C11_ClassifiedByPrefix ==
  encOut.kind # "idle" =>
    IF encIn.hasName /\ BeginsWith(encIn.name, LitHtcBs) THEN RanV1
    ELSE IF encIn.hasName /\ BeginsWith(encIn.name, LitLhb) THEN RanV2
    ELSE RanNone

\* C11, witness: a name that holds "LHB-" after its first character was
\* dispatched and no encoder was invoked.
C11_PrefixNotAtStartWitness ==
  /\ encIn.hasName
  /\ encIn.name = <<"X", "L", "H", "B", "-", "A", "B", "C", "D", "E", "F">>
  /\ encOut.kind = "skip"

\* the encoder specification has dispatched a Generation-2 name
EncodedV2 ==
  /\ encOut.kind # "idle"
  /\ encIn.hasName
  /\ ~BeginsWith(encIn.name, LitHtcBs)
  /\ BeginsWith(encIn.name, LitLhb)

\* C12: for a Generation-2 name the encoder never fails and writes, to the
\* characteristic 00001525-1212-efde-1523-785feabcd124, the single byte 0x00
\* for Off, 0x01 for On and 0x02 for Standby, so that different states give
\* different payloads and no other payload is produced.
C12_Gen2Payload ==
  EncodedV2 =>
    /\ encOut.kind = "write"
    /\ encOut.uuid = "00001525-1212-efde-1523-785feabcd124"
    /\ encOut.cmd = (CASE encIn.state = "Off"     -> <<0>>
                       [] encIn.state = "On"      -> <<1>>
                       [] encIn.state = "Standby" -> <<2>>)
    /\ \A s \in States \ {encIn.state} : V2Ctrl(s).cmd # encOut.cmd

\* C12, witness: "LHB-ABCDEF" with Standby wrote the byte 0x02.
C12_StandbyWitness ==
  /\ encIn.hasName
  /\ encIn.name = <<"L", "H", "B", "-", "A", "B", "C", "D", "E", "F">>
  /\ encIn.state = "Standby"
  /\ encOut = [kind |-> "write", cmd |-> <<2>>,
               uuid |-> "00001525-1212-efde-1523-785feabcd124", err |-> ""]

\* resolving the device failed at some step, or gave no properties or no name
Unresolved(dev) == dev.perr \/ ~dev.props \/ ~dev.hasName

\* C13: when resolving a discovered device fails at any step, or yields no
\* properties or no advertised name, the task returns not-applicable (Ok(None),
\* not a failure) without a write, and the run is not ended by it.
C13_ResolutionFailureIsNotApplicable ==
  /\ \A i \in 1..Len(tasks) :
       (tasks[i].pc = "done" /\ Unresolved(tasks[i].dev)) =>
         /\ tasks[i].res.kind = "none"
         /\ tasks[i].writes = <<>>
  /\ outcome # [kind |-> "err", err |-> "Btle"]

\* the handles sent so far, in the order main receives them
HandlesSent ==
  [k \in 1..Len(consumed) |-> consumed[k].h]
    \o (IF cur # 0 THEN <<cur>> ELSE <<>>) \o queue

\* the step delivers an event to the discovery loop
Delivers == delivered' = delivered + 1

\* an event is taken only by a loop that is not suspended in a send, never
\* touches the channel, and either spawns nothing or spawns one task whose
\* handle is the next to be sent
DeliveryStep ==
  Delivers =>
    /\ dpc = "next"
    /\ queue' = queue
    /\ \/ tasks' = tasks /\ dpc' = "next"
       \/ /\ Len(tasks') = Len(tasks) + 1
          /\ SubSeq(tasks', 1, Len(tasks)) = tasks
          /\ tasks'[Len(tasks')].pc = "spawned"
          /\ dpc' = "send"

\* a send suspended on a full channel stays suspended, and the send that
\* completes puts the handle of the task just spawned last in the channel
SendStep ==
  /\ (dpc = "send" /\ Len(queue) = 100) =>
       (dpc' = "send" /\ delivered' = delivered /\ Len(tasks') = Len(tasks))
  /\ (dpc = "send" /\ dpc' = "next") =>
       (queue' = Append(queue, Len(tasks)) /\ Len(tasks') = Len(tasks))

\* C14: for every DeviceDiscovered event the discovery loop spawns exactly one
\* task and enqueues exactly one handle to it, in event order (the handles
\* sent are 1, 2, .. up to the last task spawned, less the one whose send is
\* pending); an event of another kind spawns nothing and leaves the channel
\* unchanged; the channel never holds more than 100 handles; and while it is
\* full the loop is suspended in the send, taking no further event and
\* keeping the handle until there is room.
C14_OneTaskOneHandlePerDiscovery ==
  /\ [](Len(queue) <= 100)
  /\ [](HandlesSent =
          [k \in 1..(Len(tasks) - (IF dpc = "send" THEN 1 ELSE 0)) |-> k])
  /\ [][DeliveryStep /\ SendStep]_vars
  /\ [][EventDiscovered => Len(tasks') = Len(tasks) + 1]_vars
  /\ [][(EventOther /\ ~EventDiscovered) =>
          (tasks' = tasks /\ queue' = queue)]_vars

\* C14, witness: the channel holds 100 handles and the discovery loop is
\* suspended in the send of the handle of the 101st task.
C14_SuspendedWhileFullWitness ==
  /\ Len(queue) = 100
  /\ dpc = "send"
  /\ Len(tasks) = 101
  /\ cpc = "select"

\* C15 (as amended): no result is consumed twice: a handle is received at
\* most once, so the handles consumed, awaited and queued are all different,
\* and the output of a consumed task has been moved out.  (A task that has
\* produced a result can be left unconsumed when the run ends.)
C15_ConsumedAtMostOnce ==
  /\ \A j, k \in 1..Len(HandlesSent) :
       j # k => HandlesSent[j] # HandlesSent[k]
  /\ \A k \in 1..Len(consumed) : tasks[consumed[k].h].pc = "joined"

\* C15, witness: the run ended by timeout after consuming the first result,
\* while the second task, which returned Ok(Some(T)), was still in the channel.
C15_ResultLeftInChannelWitness ==
  /\ cpc = "done"
  /\ outcome.kind = "ok"
  /\ Len(consumed) = 1
  /\ queue = <<2>>
  /\ tasks[2].pc = "done"
  /\ tasks[2].res.kind = "some"

\* C15 (as stated): no result is consumed twice, and when the run has ended no
\* task that produced a result is left with it unconsumed.
C15_ConsumedExactlyOnce ==
  /\ \A j, k \in 1..Len(consumed) : j # k => consumed[j].h # consumed[k].h
  /\ cpc = "done" => \A i \in 1..Len(tasks) : tasks[i].pc # "done"

\* C16: the timestamp of a result Ok(Some(T)) is the instant the task
\* recorded once the name was resolved, before classification, encoding and
\* the write: it is not later than the start of the task's write (while the
\* write is in progress the recorded instant is not in the future and no
\* result exists yet), and it is returned only when the write has succeeded.
C16_TimestampReturnedAfterWrite ==
  \A i \in 1..Len(tasks) :
    /\ tasks[i].pc = "writing" =>
         /\ tasks[i].time <= now
         /\ tasks[i].res.kind = "pending"
         /\ Len(tasks[i].writes) = 1
    /\ (tasks[i].pc = "done" /\ tasks[i].res.kind = "some") =>
         /\ tasks[i].res.time <= now
         /\ Len(tasks[i].writes) = 1

\* C17: (duration, prev) starts as (10 s, the start instant) and is changed
\* only by the step of main that consumes a result Ok(Some(T)): every step of
\* the discovery loop and of the tasks, and every step of main that receives
\* a handle, consumes Ok(None) or a failed result, or takes the timeout,
\* leaves both unchanged.
C17_OnlySuccessChangesSession ==
  /\ (duration = 20 /\ prev = now)
  /\ [][(duration' # duration \/ prev' # prev) => ConsumesSome]_vars
  /\ [][(Consumes /\ tasks[cur].res.kind # "some") =>
          (duration' = duration /\ prev' = prev)]_vars
  /\ [][(cpc = "select" /\ cpc' # "select") =>
          (duration' = duration /\ prev' = prev)]_vars

\* C17, witness: a successful result changed the timeout and prev, and the
\* result Ok(None) consumed after it left them as they were.
C17_ChangedThenKeptWitness ==
  /\ Len(consumed) = 2
  /\ consumed[1].res.kind = "some"
  /\ consumed[1].res.time > 0
  /\ consumed[2].res.kind = "none"
  /\ prev = consumed[1].res.time
  /\ duration = consumed[1].timeout
  /\ duration # 20

\* the results Ok(Some(T)) consumed so far, in the order consumed
ConsumedSome == SelectSeq(consumed, LAMBDA c : c.res.kind = "some")

\* C18 (as amended): tasks record their timestamps independently of the order
\* in which main consumes them, so across consumed successful results prev
\* can decrease: it becomes T also when T is earlier than prev, and the
\* timeout recomputed is then zero; the timeout is never negative, and it is
\* positive exactly when T is later than prev.
C18_PrevFollowsConsumptionOrder ==
  /\ [](duration >= 0)
  /\ [][ConsumesSome =>
          LET T == tasks[cur].res.time
          IN  /\ prev' = T
              /\ (T < prev) => (prev' < prev /\ duration' = 0)
              /\ (duration' > 0) <=> (T > prev)]_vars

\* C18, witness: the task discovered first recorded its timestamp later than
\* the task discovered second; both results were consumed, prev went back
\* from 1 s to 0.5 s and the timeout became zero.
C18_PrevWentBackWitness ==
  /\ Len(consumed) = 2
  /\ consumed[1].res = [kind |-> "some", time |-> 2, err |-> ""]
  /\ consumed[2].res = [kind |-> "some", time |-> 1, err |-> ""]
  /\ consumed[1].timeout = 20
  /\ prev = 1
  /\ duration = 0

\* C18 (as stated): across the consumed successful results prev never
\* decreases and the timeout recomputed is strictly positive.
C18_PrevMonotoneTimeoutPositive ==
  /\ \A k \in 1..Len(ConsumedSome) : ConsumedSome[k].timeout > 0
  /\ \A j, k \in 1..Len(ConsumedSome) :
       j < k => ConsumedSome[j].res.time <= ConsumedSome[k].res.time

\* main takes the timeout branch
TimesOut == cpc = "select" /\ cpc' = "done"

\* C19: the timeout is armed anew, in full, at the top of every iteration of
\* main's loop: when main has consumed a result and goes on (Ok(Some) or
\* Ok(None)), the new Sleep elapses one whole current timeout after the
\* instant of that step, whatever T, prev and the previous deadline were; the
\* deadline then stands until the next result is consumed, and main does
\* not take the timeout branch before it.
C19_TimeoutRearmedInFull ==
  /\ (deadline = now + duration)
  /\ [][(Consumes /\ cpc' = "select") => deadline' = now' + duration']_vars
  /\ [][deadline' # deadline => Consumes]_vars
  /\ [][TimesOut => now >= deadline]_vars

\* C19, witness: a result was consumed 1 s or more after the start, at an
\* instant later than its timestamp, and the run ended by timeout exactly one
\* whole timeout after that instant.
C19_FullWindowAfterResultWitness ==
  /\ cpc = "done"
  /\ outcome.kind = "ok"
  /\ consumed # <<>>
  /\ consumed[Len(consumed)].res.kind = "some"
  /\ duration > 0
  /\ deadline - duration >= 2
  /\ deadline - duration > prev
  /\ now = deadline

\* C20: the timeout is raced against the arrival of the next handle only:
\* once main has received a handle it leaves the await only by consuming the
\* finished result of that very task, however late that is, so the run ends
\* by timeout (with success) only from the wait on the channel.
C20_TimeoutOnlyWhileWaitingOnQueue ==
  /\ [](cpc = "await" => (cur # 0 /\ outcome.kind = "running"))
  /\ [][cpc = "await" =>
          \/ cpc' = "await" /\ cur' = cur /\ outcome' = outcome
          \/ /\ tasks[cur].pc = "done"
             /\ Len(consumed') = Len(consumed) + 1
             /\ consumed'[Len(consumed')].h = cur
             /\ consumed'[Len(consumed')].res = tasks[cur].res]_vars
  /\ [][(outcome.kind = "running" /\ outcome'.kind = "ok") =>
          (cpc = "select" /\ cur = 0 /\ now >= deadline)]_vars

\* C20, witness: main awaits a task that has not finished although the
\* deadline of the last Sleep has passed, and the run is still going on.
C20_AwaitingPastDeadlineWitness ==
  /\ cpc = "await"
  /\ tasks[cur].pc # "done"
  /\ now > deadline
  /\ outcome.kind = "running"

====
